---- MODULE Spec2Model ----
(***************************************************************************)
(* Model of class DAGLongestPath (dag_longest_path.py): a graph with       *)
(* weighted nodes is built by add_node / add_edge, and longest_path pops   *)
(* the nodes without incoming edges one by one, relaxes their successors   *)
(* and deletes their outgoing edges.  One loop iteration is one step.      *)
(***************************************************************************)
EXTENDS Integers, Sequences, FiniteSets, TLC

\* ------------------------------------------------------------ bounds
NumLabels == 3      \* labels are 1..NumLabels
MaxWeight == 2      \* weights offered to add_node are -1..MaxWeight
MaxOps == 5         \* add_node / add_edge calls in one behaviour
MaxCalls == 2       \* longest_path calls in one behaviour
PopCap == 3         \* the pop counter of a label stops counting here

Labels == 1..NumLabels
Weights == (-1)..MaxWeight

\* ------------------------------------------------------------ values
\* Python's None / a present value, as a sequence of length 0 / 1.
None == <<>>
Some(x) == <<x>>

\* A dict is a function whose DOMAIN is its key set.
EmptyDict == <<>>
Put(d, k, v) == [x \in (DOMAIN d) \cup {k} |-> IF x = k THEN v ELSE d[x]]
Get(d, k, default) == IF k \in DOMAIN d THEN d[k] ELSE default

VARIABLES
    nodes,              \* self.nodes: label -> weight
    edges,              \* self.edges: label -> set of target labels
    rev_edges,          \* self.rev_edges: label -> set of source labels
    unseen_sources,     \* self.unseen_sources
    longest_in_weight,  \* self.longest_in_weight
    longest_in_route,   \* self.longest_in_route
    longest_route,      \* self.longest_route (None or Some(route))
    longest_route_weight, \* self.longest_route_weight (None or Some(weight))
    pc,                 \* "idle": between calls; "loop": inside longest_path's while
    result,             \* how the last call ended
    \* history of the run, read by the properties only
    ops,                \* number of add_node / add_edge calls made
    calls,              \* number of longest_path calls started
    last_op,            \* the last call: <<name, argument, argument>>
    twice,              \* the last call repeats the call just before it
    readded,            \* some label was passed to a successful add_node twice
    orig,               \* the graph store and frontier as built when longest_path was entered
                        \* (kept by a call that directly follows another call)
    finalized           \* label -> number of times popped in the current call

prog == <<nodes, edges, rev_edges, unseen_sources, longest_in_weight,
          longest_in_route, longest_route, longest_route_weight>>
hist == <<ops, calls, last_op, twice, readded, orig, finalized>>
vars == <<prog, pc, result, hist>>

\* ------------------------------------------------------------ outcomes
Ok == [status |-> "ok", msg |-> "", label |-> None, route |-> None, weight |-> None]
Raised(m, l) ==
    [status |-> "ValueError", msg |-> m, label |-> l, route |-> None, weight |-> None]
Returned(r, w) ==
    [status |-> "returned", msg |-> "", label |-> None, route |-> r, weight |-> w]
NoResult == [status |-> "none", msg |-> "", label |-> None, route |-> None, weight |-> None]

\* ------------------------------------------------------------ __init__
Init ==
    /\ nodes = EmptyDict
    /\ edges = EmptyDict
    /\ rev_edges = EmptyDict
    /\ unseen_sources = {}
    /\ longest_in_weight = EmptyDict
    /\ longest_in_route = EmptyDict
    /\ longest_route = None
    /\ longest_route_weight = None
    /\ pc = "idle"
    /\ result = NoResult
    /\ ops = 0
    /\ calls = 0
    /\ last_op = <<"init", 0, 0>>
    /\ twice = FALSE
    /\ readded = FALSE
    /\ orig = [nodes |-> EmptyDict, edges |-> EmptyDict, rev_edges |-> EmptyDict,
               unseen_sources |-> {}]
    /\ finalized = [l \in Labels |-> 0]

\* ------------------------------------------------------------ add_node
\* Variant: the weight is tested after the node has been stored.
add_node_late_check(label, weight) ==
    /\ nodes' = Put(nodes, label, weight)
    /\ edges' = Put(edges, label, {})
    /\ rev_edges' = Put(rev_edges, label, {})
    /\ unseen_sources' = unseen_sources \cup {label}
    /\ result' = IF weight < 0 THEN Raised("weight cannot be negative", None) ELSE Ok
    /\ UNCHANGED <<longest_in_weight, longest_in_route, longest_route,
                   longest_route_weight>>

add_node(label, weight) ==
    IF weight < 0
    THEN /\ result' = Raised("weight cannot be negative", None)
         /\ UNCHANGED prog
    ELSE /\ nodes' = Put(nodes, label, weight)
         /\ edges' = Put(edges, label, {})
         /\ rev_edges' = Put(rev_edges, label, {})
         /\ unseen_sources' = unseen_sources \cup {label}
         /\ result' = Ok
         /\ UNCHANGED <<longest_in_weight, longest_in_route, longest_route,
                        longest_route_weight>>

AddNode ==
    \E label \in Labels, weight \in Weights :
        /\ pc = "idle"
        /\ ops < MaxOps
        /\ add_node(label, weight)
        /\ ops' = ops + 1
        /\ last_op' = <<"add_node", label, weight>>
        /\ twice' = (last_op = <<"add_node", label, weight>>)
        /\ readded' = (readded \/ (weight >= 0 /\ label \in DOMAIN nodes))
        /\ UNCHANGED <<pc, calls, orig, finalized>>

\* ------------------------------------------------------------ add_edge
\* Variant: the target is tested after the source's forward set was extended.
add_edge_late_check(source, target) ==
    IF source \notin DOMAIN nodes
    THEN /\ result' = Raised("source not a node", Some(source))
         /\ UNCHANGED prog
    ELSE IF target \notin DOMAIN nodes
    THEN /\ edges' = [edges EXCEPT ![source] = @ \cup {target}]
         /\ result' = Raised("target not a node", Some(target))
         /\ UNCHANGED <<nodes, rev_edges, unseen_sources, longest_in_weight,
                        longest_in_route, longest_route, longest_route_weight>>
    ELSE /\ edges' = [edges EXCEPT ![source] = @ \cup {target}]
         /\ rev_edges' = [rev_edges EXCEPT ![target] = @ \cup {source}]
         /\ unseen_sources' = unseen_sources \ {target}
         /\ result' = Ok
         /\ UNCHANGED <<nodes, longest_in_weight, longest_in_route, longest_route,
                        longest_route_weight>>

\* Variant: "^=" for "|=", an edge added again is taken out.
add_edge_toggle(source, target) ==
    IF source \notin DOMAIN nodes
    THEN /\ result' = Raised("source not a node", Some(source))
         /\ UNCHANGED prog
    ELSE IF target \notin DOMAIN nodes
    THEN /\ result' = Raised("target not a node", Some(target))
         /\ UNCHANGED prog
    ELSE /\ edges' = [edges EXCEPT ![source] =
                         IF target \in @ THEN @ \ {target} ELSE @ \cup {target}]
         /\ rev_edges' = [rev_edges EXCEPT ![target] =
                             IF source \in @ THEN @ \ {source} ELSE @ \cup {source}]
         /\ unseen_sources' = unseen_sources \ {target}
         /\ result' = Ok
         /\ UNCHANGED <<nodes, longest_in_weight, longest_in_route, longest_route,
                        longest_route_weight>>

add_edge(source, target) ==
    IF source \notin DOMAIN nodes
    THEN /\ result' = Raised("source not a node", Some(source))
         /\ UNCHANGED prog
    ELSE IF target \notin DOMAIN nodes
    THEN /\ result' = Raised("target not a node", Some(target))
         /\ UNCHANGED prog
    ELSE /\ edges' = [edges EXCEPT ![source] = @ \cup {target}]
         /\ rev_edges' = [rev_edges EXCEPT ![target] = @ \cup {source}]
         /\ unseen_sources' = unseen_sources \ {target}
         /\ result' = Ok
         /\ UNCHANGED <<nodes, longest_in_weight, longest_in_route, longest_route,
                        longest_route_weight>>

AddEdge ==
    \E source \in Labels, target \in Labels :
        /\ pc = "idle"
        /\ ops < MaxOps
        /\ add_edge(source, target)
        /\ ops' = ops + 1
        /\ last_op' = <<"add_edge", source, target>>
        /\ twice' = (last_op = <<"add_edge", source, target>>)
        /\ UNCHANGED <<pc, calls, readded, orig, finalized>>

\* ------------------------------------------------------------ longest_path
\* Entry of longest_path: nothing of the object changes yet.
LongestPathCall ==
    /\ pc = "idle"
    /\ calls < MaxCalls
    /\ pc' = "loop"
    /\ result' = NoResult
    /\ calls' = calls + 1
    /\ last_op' = <<"longest_path", 0, 0>>
    /\ twice' = (last_op[1] = "longest_path")
    /\ orig' = IF last_op[1] = "longest_path" THEN orig
               ELSE [nodes |-> nodes, edges |-> edges, rev_edges |-> rev_edges,
                     unseen_sources |-> unseen_sources]
    /\ finalized' = [l \in Labels |-> 0]
    /\ UNCHANGED <<prog, ops, readded>>

new_weight(sourcenode) == Get(longest_in_weight, sourcenode, 0) + nodes[sourcenode]
\* Variant: the label is put in front of the route instead of at its end.
new_route_prepend(sourcenode) ==
    <<sourcenode>> \o Get(longest_in_route, sourcenode, <<>>)

new_route(sourcenode) == Append(Get(longest_in_route, sourcenode, <<>>), sourcenode)

\* Variant: "<=" for "<", a terminal of equal weight takes the global best over.
improves_best_or_ties(w) == longest_route = None \/ longest_route_weight[1] <= w

\* Variant: the comparison is left out, every terminal takes the global best over.
improves_best_always(w) == TRUE

\* "longest_route is None or longest_route_weight < new_weight"
improves_best(w) == longest_route = None \/ longest_route_weight[1] < w

\* Variant: the table entry is overwritten by every predecessor.
relaxes_always(target, w) == TRUE

\* "longest_in_weight.get(target, 0) < new_weight"
relaxes(target, w) == Get(longest_in_weight, target, 0) < w

\* Variant: the label is read from the frontier and left in it.
popped_not_removed(sourcenode) == unseen_sources

\* The frontier after "sourcenode = self.unseen_sources.pop()"
popped(sourcenode) == unseen_sources \ {sourcenode}

\* Variant: every target enters the frontier, whatever is left of its reverse set.
del_edges_from_eager(source) ==
    LET targets == edges[source]
    IN  /\ edges' = [edges EXCEPT ![source] = {}]
        /\ rev_edges' = [t \in DOMAIN rev_edges |->
               IF t \in targets THEN rev_edges[t] \ {source} ELSE rev_edges[t]]
        /\ unseen_sources' = popped(source) \cup targets

\* __del_edges_from(source), run after sourcenode was popped from unseen_sources
del_edges_from(source) ==
    LET targets == edges[source]
        rev == [t \in DOMAIN rev_edges |->
                   IF t \in targets THEN rev_edges[t] \ {source} ELSE rev_edges[t]]
    IN  /\ edges' = [edges EXCEPT ![source] = {}]
        /\ rev_edges' = rev
        /\ unseen_sources' =
               popped(source) \cup {t \in targets : rev[t] = {}}

\* A loop body that compares every popped node with the global best, whether
\* or not it has outgoing edges.
loop_body_best_anywhere(sourcenode) ==
    LET w == new_weight(sourcenode)
        r == new_route(sourcenode)
        best == IF improves_best(w)
                THEN /\ longest_route' = Some(r)
                     /\ longest_route_weight' = Some(w)
                ELSE UNCHANGED <<longest_route, longest_route_weight>>
    IN  IF edges[sourcenode] = {}
        THEN /\ best
             /\ unseen_sources' = popped(sourcenode)
             /\ UNCHANGED <<nodes, edges, rev_edges, longest_in_weight,
                            longest_in_route>>
        ELSE LET better == {t \in edges[sourcenode] : relaxes(t, w)}
             IN  /\ longest_in_weight' =
                        [t \in (DOMAIN longest_in_weight) \cup better |->
                            IF t \in better THEN w ELSE longest_in_weight[t]]
                 /\ longest_in_route' =
                        [t \in (DOMAIN longest_in_route) \cup better |->
                            IF t \in better THEN r ELSE longest_in_route[t]]
                 /\ del_edges_from(sourcenode)
                 /\ best
                 /\ UNCHANGED nodes

\* One iteration of the while loop, with sourcenode the label pop() yields.
loop_body(sourcenode) ==
    LET w == new_weight(sourcenode)
        r == new_route(sourcenode)
    IN  IF edges[sourcenode] = {}
        THEN /\ IF improves_best(w)
                THEN /\ longest_route' = Some(r)
                     /\ longest_route_weight' = Some(w)
                ELSE UNCHANGED <<longest_route, longest_route_weight>>
             /\ unseen_sources' = popped(sourcenode)
             /\ UNCHANGED <<nodes, edges, rev_edges, longest_in_weight,
                            longest_in_route>>
        ELSE LET better == {t \in edges[sourcenode] : relaxes(t, w)}
             IN  /\ longest_in_weight' =
                        [t \in (DOMAIN longest_in_weight) \cup better |->
                            IF t \in better THEN w ELSE longest_in_weight[t]]
                 /\ longest_in_route' =
                        [t \in (DOMAIN longest_in_route) \cup better |->
                            IF t \in better THEN r ELSE longest_in_route[t]]
                 /\ del_edges_from(sourcenode)
                 /\ UNCHANGED <<nodes, longest_route, longest_route_weight>>

LoopIteration ==
    \E sourcenode \in unseen_sources :
        /\ pc = "loop"
        /\ loop_body(sourcenode)
        /\ finalized' = [finalized EXCEPT
                             ![sourcenode] = IF @ < PopCap THEN @ + 1 ELSE @]
        /\ UNCHANGED <<pc, result, ops, calls, last_op, twice, readded, orig>>

\* Variant: an empty route and weight 0 stand in for "nothing found".
return_value_defaulted ==
    Returned(IF longest_route = None THEN Some(<<>>) ELSE longest_route,
             IF longest_route_weight = None THEN Some(0) ELSE longest_route_weight)

\* "return (self.longest_route, self.longest_route_weight)"
return_value == Returned(longest_route, longest_route_weight)

LongestPathReturn ==
    /\ pc = "loop"
    /\ unseen_sources = {}
    /\ pc' = "idle"
    /\ result' = return_value
    /\ UNCHANGED <<prog, hist>>

Next == AddNode \/ AddEdge \/ LongestPathCall \/ LoopIteration \/ LongestPathReturn

Spec == Init /\ [][Next]_vars

\* The loop runs on: a call that has started keeps executing.
FairSpec == Spec /\ WF_vars(LoopIteration) /\ WF_vars(LongestPathReturn)

\* ------------------------------------------------------------ graph notions
\* Used by the properties: directed paths of a graph g = [nodes, edges].
HasEdge(g, s, t) == s \in DOMAIN g.edges /\ t \in g.edges[s]

IsWalk(g, p) == \A i \in 1..(Len(p) - 1) : HasEdge(g, p[i], p[i + 1])

RECURSIVE ReachFrom(_, _, _)
ReachFrom(g, S, k) ==
    IF k = 0 THEN S
    ELSE ReachFrom(g, S \cup UNION {g.edges[x] : x \in S}, k - 1)

Acyclic(g) == \A n \in DOMAIN g.edges : n \notin ReachFrom(g, g.edges[n], NumLabels)

\* Every directed path of an acyclic graph has at most NumLabels nodes.
LabelSeqs == UNION {[1..k -> Labels] : k \in 1..NumLabels}
Paths(g) == {p \in LabelSeqs : (\A i \in 1..Len(p) : p[i] \in DOMAIN g.nodes)
                                /\ IsWalk(g, p)}

RECURSIVE PathWeight(_, _)
PathWeight(g, p) == IF p = <<>> THEN 0 ELSE g.nodes[Head(p)] + PathWeight(g, Tail(p))

SetMax(S) == CHOOSE m \in S : \A x \in S : x <= m

NumEdges(g) == Cardinality({st \in Labels \X Labels : HasEdge(g, st[1], st[2])})

\* The first call of longest_path has returned and nothing was called since.
FirstCallReturned == pc = "idle" /\ calls = 1 /\ result.status = "returned"

\* ------------------------------------------------------------ properties

\* C1: on a non-empty acyclic graph whose labels were each added once, the
\* weight returned by the first longest_path call is the maximum, over all
\* directed paths of the graph as built (single nodes included), of the sum of
\* the node weights, whichever node each pop of the frontier yields.
C1_ReturnsMaxWeight ==
    (FirstCallReturned /\ ~readded /\ Acyclic(orig) /\ DOMAIN orig.nodes # {})
        => result.weight = Some(SetMax({PathWeight(orig, p) : p \in Paths(orig)}))

\* A first call has returned the weight of a path of several nodes, on a graph
\* where some node has two predecessors.
C1_Witness ==
    /\ FirstCallReturned /\ ~readded /\ Acyclic(orig)
    /\ \E t \in DOMAIN orig.nodes :
           Cardinality({s \in DOMAIN orig.nodes : HasEdge(orig, s, t)}) = 2
    /\ result.weight # None
    /\ result.weight[1] > MaxWeight

\* C2: on an acyclic graph the route returned by the first longest_path call,
\* when there is one and it is not empty, is a directed path of the graph as
\* built (consecutive labels joined by an edge present before the traversal)
\* and its node weights add up to the returned weight.
C2_RouteIsPathOfWeight ==
    (FirstCallReturned /\ Acyclic(orig) /\ result.route # None
                       /\ result.route # Some(<<>>))
        => /\ result.route[1] \in Paths(orig)
           /\ result.weight = Some(PathWeight(orig, result.route[1]))

\* A first call has returned a route of three nodes.
C2_Witness ==
    /\ FirstCallReturned /\ Acyclic(orig)
    /\ result.route # None
    /\ Len(result.route[1]) = 3

\* C3 (as claimed): a longest_path call that directly follows a longest_path
\* call on a non-empty acyclic graph returns (None, None).
C3_SecondCallReturnsNone ==
    (pc = "idle" /\ result.status = "returned" /\ calls = 2 /\ twice
       /\ DOMAIN orig.nodes # {} /\ Acyclic(orig))
        => (result.route = None /\ result.weight = None)

\* The step is a call add_node(label, weight) / add_edge(source, target).
IsAddNodeStep(label, weight) ==
    ops' = ops + 1 /\ last_op' = <<"add_node", label, weight>>
IsAddEdgeStep(source, target) ==
    ops' = ops + 1 /\ last_op' = <<"add_edge", source, target>>

\* C4: add_node with a negative weight raises and changes no field of the
\* object, in every state and whether or not the label is registered.
C4_NegativeWeightRejected ==
    [][\A label \in Labels, weight \in Weights :
          (IsAddNodeStep(label, weight) /\ weight < 0)
              => (result'.status = "ValueError" /\ prog' = prog)]_vars

\* add_node with a negative weight was called for a registered label that has an
\* edge, and raised.
C4_Witness ==
    /\ last_op[1] = "add_node" /\ last_op[3] < 0
    /\ last_op[2] \in DOMAIN nodes
    /\ edges[last_op[2]] # {}
    /\ result.status = "ValueError"

\* C5: add_edge with an unregistered endpoint raises, the error names the source
\* when the source is unregistered and the target otherwise, and no field of
\* the object changes (the forward set of a registered source included).
C5_UnknownEndpointRejected ==
    [][\A source \in Labels, target \in Labels :
          (IsAddEdgeStep(source, target)
             /\ (source \notin DOMAIN nodes \/ target \notin DOMAIN nodes))
              => /\ result'.status = "ValueError"
                 /\ prog' = prog
                 /\ IF source \notin DOMAIN nodes
                    THEN result'.msg = "source not a node" /\ result'.label = Some(source)
                    ELSE result'.msg = "target not a node" /\ result'.label = Some(target)
      ]_vars

\* add_edge was called with a registered source and an unregistered target, and
\* raised naming the target.
C5_Witness ==
    /\ last_op[1] = "add_edge"
    /\ last_op[2] \in DOMAIN nodes
    /\ last_op[3] \notin DOMAIN nodes
    /\ result.status = "ValueError"
    /\ result.msg = "target not a node"

\* C6: a longest_path call on an acyclic graph leaves its loop and returns.
C6_Terminates ==
    (pc = "loop" /\ Acyclic(orig)) ~> (pc = "idle" /\ result.status = "returned")

\* A call on an acyclic graph with two edges has returned after three pops.
C6_Witness ==
    /\ pc = "idle" /\ result.status = "returned"
    /\ Acyclic(orig) /\ NumEdges(orig) = 2
    /\ \A l \in DOMAIN orig.nodes : finalized[l] >= 1
    /\ Cardinality(DOMAIN orig.nodes) = 3

\* C7: in the first longest_path call on an acyclic graph whose labels were
\* each added once, no node is popped twice, and when the call has returned
\* every registered node has been popped exactly once.
C7_FinalizedExactlyOnce ==
    (calls = 1 /\ ~readded /\ Acyclic(orig) /\ last_op[1] = "longest_path")
        => /\ \A l \in Labels : finalized[l] <= 1
           /\ (pc = "idle" => \A l \in DOMAIN nodes : finalized[l] = 1)

\* The first call has returned on a graph where one node has two predecessors.
C7_Witness ==
    /\ FirstCallReturned /\ ~readded /\ Acyclic(orig)
    /\ last_op[1] = "longest_path"
    /\ \E t \in DOMAIN orig.nodes :
           Cardinality({s \in DOMAIN orig.nodes : HasEdge(orig, s, t)}) = 2
    /\ \A l \in DOMAIN nodes : finalized[l] = 1

\* C8 (as claimed): when longest_path has returned on an acyclic graph, the
\* node weights, both adjacency maps, the frontier and the best-path table are
\* all empty.
C8_EverythingEmptyAfterReturn ==
    (pc = "idle" /\ result.status = "returned" /\ Acyclic(orig))
        => /\ nodes = EmptyDict
           /\ edges = EmptyDict
           /\ rev_edges = EmptyDict
           /\ unseen_sources = {}
           /\ longest_in_weight = EmptyDict
           /\ longest_in_route = EmptyDict

\* C9: longest_path on an object that has no nodes returns (None, None).
C9_EmptyGraphReturnsNone ==
    (pc = "idle" /\ result.status = "returned" /\ DOMAIN nodes = {})
        => (result.route = None /\ result.weight = None)

\* longest_path has returned on an object without nodes.
C9_Witness ==
    pc = "idle" /\ result.status = "returned" /\ DOMAIN nodes = {}

\* C10: add_edge(source, target) called again right after it succeeded leaves
\* the forward sets, the reverse sets and the frontier (and every other field)
\* as the first call left them.
C10_AddEdgeIdempotent ==
    [][\A source \in Labels, target \in Labels :
          (IsAddEdgeStep(source, target)
             /\ last_op = <<"add_edge", source, target>>
             /\ result.status = "ok")
              => (result'.status = "ok" /\ prog' = prog)]_vars

\* The same add_edge call was made twice in a row and succeeded.
C10_Witness ==
    last_op[1] = "add_edge" /\ twice /\ result.status = "ok"

\* C11 (as claimed): on an acyclic graph, here one whose labels were each
\* added once, the route returned by longest_path starts at a node that had no
\* incoming edge in the graph as built, also when some weights are 0.
C11_RouteStartsAtRoot ==
    (FirstCallReturned /\ ~readded /\ Acyclic(orig) /\ result.route # None)
        => ~ \E s \in DOMAIN orig.nodes : HasEdge(orig, s, result.route[1][1])

\* C12 (as claimed): after every add_node (re-adding a registered label
\* included), add_edge and loop iteration, target is in the forward set of
\* source exactly when source is in the reverse set of target.
C12_AdjacencySynchronized ==
    \A s \in DOMAIN nodes, t \in DOMAIN nodes :
        (t \in edges[s]) <=> (s \in rev_edges[t])

\* C13 (as claimed): while the graph is built and after every iteration of the
\* first longest_path call, a registered label is in the frontier exactly when
\* its reverse set is empty and it has not been popped yet.
C13_FrontierInvariant ==
    (calls = 0 \/ (calls = 1 /\ last_op[1] = "longest_path"))
        => \A l \in DOMAIN nodes :
               (l \in unseen_sources) <=> (rev_edges[l] = {} /\ finalized[l] = 0)

\* C14 (as claimed): during the first longest_path call on an acyclic graph, a
\* node is in the frontier or finalized only when every predecessor it has in
\* the graph as built has been finalized and has had its outgoing edges removed.
C14_TopologicalOrder ==
    (calls = 1 /\ last_op[1] = "longest_path" /\ Acyclic(orig))
        => \A t \in DOMAIN nodes :
               (t \in unseen_sources \/ finalized[t] > 0)
                   => \A s \in DOMAIN nodes :
                          HasEdge(orig, s, t) => (finalized[s] > 0 /\ edges[s] = {})

\* The predecessors of t in the graph as built.
Preds(t) == {s \in DOMAIN orig.nodes : HasEdge(orig, s, t)}

\* C15 (as claimed): in the first longest_path call on an acyclic graph, here
\* one whose labels were each added once, a node t of the frontier that has a
\* predecessor has an entry in the best-path table, and the entry is the
\* finalized weight and route of a predecessor whose finalized weight is
\* maximal among the predecessors of t.
C15_TableHoldsMaxPredecessor ==
    (calls = 1 /\ pc = "loop" /\ ~readded /\ Acyclic(orig))
        => \A t \in unseen_sources :
               Preds(t) # {}
                   => /\ t \in DOMAIN longest_in_weight
                      /\ \E s \in Preds(t) :
                             /\ \A q \in Preds(t) : new_weight(q) <= new_weight(s)
                             /\ longest_in_weight[t] = new_weight(s)
                             /\ longest_in_route[t] = new_route(s)

\* The step is the loop iteration that pops the terminal node n.
IsTerminalPop(n) ==
    /\ pc = "loop" /\ pc' = "loop"
    /\ n \in unseen_sources
    /\ edges[n] = {}
    /\ unseen_sources' = unseen_sources \ {n}

\* C16: when a terminal node is finalized, the global best becomes that node's
\* route and weight if there was none or the node's weight is strictly greater
\* than the global best weight, and is left as it is otherwise, on an equal
\* weight in particular.
C16_TieBreakKeepsFirst ==
    [][\A n \in Labels :
          IsTerminalPop(n)
              => IF longest_route = None \/ longest_route_weight[1] < new_weight(n)
                 THEN /\ longest_route' = Some(new_route(n))
                      /\ longest_route_weight' = Some(new_weight(n))
                 ELSE /\ longest_route' = longest_route
                      /\ longest_route_weight' = longest_route_weight]_vars

\* Two isolated nodes of the same positive weight were both finalized in the
\* first call, and that weight is the one returned: the second was a tie.
C16_Witness ==
    /\ FirstCallReturned /\ ~readded /\ NumEdges(orig) = 0
    /\ \E a \in DOMAIN orig.nodes, b \in DOMAIN orig.nodes :
           /\ a # b
           /\ orig.nodes[a] = orig.nodes[b]
           /\ orig.nodes[a] > 0
           /\ result.weight = Some(orig.nodes[a])
           /\ finalized[a] = 1 /\ finalized[b] = 1

\* ------------------------------------------------------------ the loop, run in label order
\* The while loop of longest_path as a function of the object's fields st,
\* with pop() yielding the smallest label of the frontier each time.
RunStep(st, n) ==
    LET w == Get(st.longest_in_weight, n, 0) + st.nodes[n]
        r == Append(Get(st.longest_in_route, n, <<>>), n)
        targets == st.edges[n]
    IN  IF targets = {}
        THEN IF st.longest_route = None \/ st.longest_route_weight[1] < w
             THEN [st EXCEPT !.unseen_sources = @ \ {n},
                             !.longest_route = Some(r),
                             !.longest_route_weight = Some(w)]
             ELSE [st EXCEPT !.unseen_sources = @ \ {n}]
        ELSE LET better == {t \in targets : Get(st.longest_in_weight, t, 0) < w}
                 rev == [t \in DOMAIN st.rev_edges |->
                            IF t \in targets THEN st.rev_edges[t] \ {n}
                            ELSE st.rev_edges[t]]
             IN  [st EXCEPT
                     !.longest_in_weight =
                         [t \in (DOMAIN st.longest_in_weight) \cup better |->
                             IF t \in better THEN w ELSE st.longest_in_weight[t]],
                     !.longest_in_route =
                         [t \in (DOMAIN st.longest_in_route) \cup better |->
                             IF t \in better THEN r ELSE st.longest_in_route[t]],
                     !.edges = [st.edges EXCEPT ![n] = {}],
                     !.rev_edges = rev,
                     !.unseen_sources = (@ \ {n}) \cup {t \in targets : rev[t] = {}}]

RECURSIVE RunFrom(_)
RunFrom(st) ==
    IF st.unseen_sources = {} THEN st
    ELSE RunFrom(RunStep(st, CHOOSE n \in st.unseen_sources :
                                 \A m \in st.unseen_sources : n <= m))

\* The fields of a new object on which the graph g was built.
EntryState(g) ==
    [nodes |-> g.nodes, edges |-> g.edges, rev_edges |-> g.rev_edges,
     unseen_sources |-> g.unseen_sources,
     longest_in_weight |-> EmptyDict, longest_in_route |-> EmptyDict,
     longest_route |-> None, longest_route_weight |-> None]

C18_GlobalBestMonotone ==
    [][/\ longest_route_weight # None
           => /\ longest_route_weight' # None
              /\ longest_route_weight'[1] >= longest_route_weight[1]
       /\ (longest_route # None /\ longest_route' # longest_route)
           => longest_route_weight'[1] > longest_route_weight[1]]_vars

\* Two isolated nodes of different weights have been finalized in the first
\* call and the global best is the heavier one: popped second, it replaced the
\* lighter one; popped first, it was kept.
C18_Witness ==
    /\ calls = 1 /\ pc = "loop" /\ ~readded /\ NumEdges(orig) = 0
    /\ \E a \in DOMAIN orig.nodes, b \in DOMAIN orig.nodes :
           /\ orig.nodes[a] < orig.nodes[b]
           /\ finalized[a] = 1 /\ finalized[b] = 1
           /\ longest_route = Some(<<b>>)
           /\ longest_route_weight = Some(orig.nodes[b])

\* Label n lies on a cycle of the graph g.
OnCycle(g, n) == n \in DOMAIN g.edges /\ n \in ReachFrom(g, g.edges[n], NumLabels)

\* C19 (as claimed, its safety part): during and after the first longest_path
\* call, a node that lies on a cycle of the graph as built is not in the
\* frontier, has not been finalized and is not in the global best route.
C19_CycleNodesUntouched ==
    (calls = 1 /\ last_op[1] = "longest_path")
        => \A n \in DOMAIN orig.nodes :
               OnCycle(orig, n)
                   => /\ n \notin unseen_sources
                      /\ finalized[n] = 0
                      /\ (longest_route # None
                            => \A i \in 1..Len(longest_route[1]) :
                                   longest_route[1][i] # n)

\* The step pops the frontier node n and stays in the loop.
IsPop(n) ==
    /\ pc = "loop" /\ pc' = "loop"
    /\ n \in unseen_sources
    /\ n \notin unseen_sources'

\* C20: in the first longest_path call on an acyclic graph whose labels were
\* each added once, popping a node that has outgoing edges in the graph as
\* built leaves the global best route and weight unchanged, and the route the
\* call returns ends at a node with no outgoing edges in the graph as built.
C20_BestOnlyFromTerminals ==
    [][(calls = 1 /\ ~readded /\ Acyclic(orig))
           => /\ \A n \in Labels :
                     (IsPop(n) /\ orig.edges[n] # {})
                         => /\ longest_route' = longest_route
                            /\ longest_route_weight' = longest_route_weight
              /\ (pc = "loop" /\ pc' = "idle" /\ result'.route # None)
                     => orig.edges[result'.route[1][Len(result'.route[1])]] = {}]_vars

\* The first call has finalized a node with outgoing edges whose weight along
\* its best incoming route exceeds the global best, which came from a terminal
\* node.
C20_Witness ==
    /\ calls = 1 /\ pc = "loop" /\ ~readded /\ Acyclic(orig)
    /\ longest_route_weight # None
    /\ orig.edges[longest_route[1][Len(longest_route[1])]] = {}
    /\ \E n \in DOMAIN orig.nodes :
           /\ orig.edges[n] # {}
           /\ finalized[n] = 1
           /\ new_weight(n) > longest_route_weight[1]

====
